---- MODULE Spec2Model ----
(***************************************************************************)
(* Region provisioning pipeline of porter (provision/stack_creator.go).    *)
(*                                                                         *)
(* One stackCreator per region runs createUpdateStackForRegion: stage the  *)
(* service payload in S3 under a content-addressed key, stage the secrets, *)
(* build, mirror and upload the CloudFormation template, and call the      *)
(* CloudFormation API.  The creators of one host share the local file      *)
(* system (constants.PayloadPath, constants.CloudFormationTemplatePath);   *)
(* S3, CloudFormation and the secrets upload are the environment.          *)
(*                                                                         *)
(* Strings are sequences of one-character strings, so that formatting,     *)
(* concatenation and substring search are computed and not assumed.  The   *)
(* only multi-character tokens are fixed literals of the code (the two key *)
(* prefixes, ".tar", the text of the description, the host of the template *)
(* URL) and the region names, which sit at fixed positions.                *)
(***************************************************************************)
EXTENDS Integers, Sequences, FiniteSets, TLC

\* ------------------------------------------------------------------ bounds

\* Longest service payload, in bytes.
MaxPayloadLen == 2

\* Calls of createUpdateStackForRegion made on the host, all creators together.
MaxCalls == 2

\* ------------------------------------------------------------------ inputs

\* The stackCreator instances of the host, named by their region.
Creators == {"us-east-1", "us-west-2"}

\* The payloads the packer can leave at constants.PayloadPath, one of each
\* length (the empty file included): contents are told apart by their
\* digests, whatever the bytes are.
Payloads == {[i \in 1..n |-> "0"] : n \in 0..MaxPayloadLen}

\* Service names, environment names and service versions of the
\* configuration.  Nothing in this file restricts their characters.
Names == {<<"a">>, <<"b">>, <<"a", "/", "a">>}

Versions == {<<"1">>, <<"2">>, <<"a", "/", "1">>}

\* Request ids S3 puts into its error messages (hexadecimal in practice).
RequestIds == {<<"A", "0", "4">>, <<"4", "0", "4">>}

\* Stack identifiers the CloudFormation call can return, with or without
\* success.
StackIds == {<<"s", "1">>, <<"s", "2">>}

\* A nil pointer, and aws.String(s): a pointer is the sequence of the values
\* it points to, none or one.
Nil == <<>>

aws_String(str) == <<str>>

\* recv.region.SSEKMSKeyId: no key, or the id of a KMS key.
SSEKMSKeyIds == {Nil, aws_String(<<"k", "m", "s">>)}

\* The values uploadSecrets leaves in recv.secretsKey and
\* recv.secretsLocation, which are empty before.
SecretsKeys == {<<"k", "e", "y">>}

SecretsLocations == {<<"l", "o", "c">>}

\* A file that does not exist.
NoFile == [exists |-> FALSE, bytes |-> <<>>]

File(b) == [exists |-> TRUE, bytes |-> b]

\* ------------------------------------------------------------------ state

VARIABLES
  config,                 \* recv.config: ServiceName, ServiceVersion
  environment,            \* recv.environment: Name
  region,                 \* region[c]: recv.region: Name, S3Bucket, SSEKMSKeyId
  secretsKey,             \* recv.secretsKey
  secretsLocation,        \* recv.secretsLocation
  uploadInput,            \* the s3manager.UploadInput built last, for either upload
  params,                 \* createStack's local params, the CfnApiInput
  payloadFile,            \* the file at constants.PayloadPath
  templateFile,           \* the file at constants.CloudFormationTemplatePath
  s3,                     \* s3[c]: the objects of region c's S3Bucket, key -> body
  pc,                     \* pc[c]: the statement creator c executes next
  payloadBytes,           \* uploadServicePayload's local payloadBytes
  headObject,             \* HeadObject's answer: status code and ContentLength
  success,                \* the named result `success` of the running function
  servicePayloadKey,      \* recv.servicePayloadKey
  servicePayloadChecksum, \* recv.servicePayloadChecksum
  templateBytes,          \* createStack's local templateBytes
  stackId,                \* createStack's result stackId, <<>> before cfnAPI
  regionState,            \* the caller's provision_state.Region: StackId, and
                          \* Other for the fields this file never names
  result,                 \* what the last createUpdateStackForRegion returned
  trace,                  \* the operations the current (or last) call executed
  stateBefore,            \* regionState as it was when the call was made
  fileAtCall,             \* payloadFile as it was when the call was made
  calls                   \* calls of createUpdateStackForRegion made so far

vars == <<config, environment, region, secretsKey, secretsLocation, uploadInput,
          params, payloadFile, templateFile, s3, pc, payloadBytes,
          headObject, success, servicePayloadKey, servicePayloadChecksum, templateBytes,
          stackId, regionState, result, trace, stateBefore, fileAtCall, calls>>

\* -------------------------------------------------------- pure functions

\* strings.Contains
Contains(s, sub) ==
  \E i \in 1..(Len(s) - Len(sub) + 1) : SubSeq(s, i, i + Len(sub) - 1) = sub

HexDigit == <<"0", "1", "2", "3", "4", "5", "6", "7",
              "8", "9", "a", "b", "c", "d", "e", "f">>

\* The characters file contents are made of, and the code of each.
Alphabet == <<"0", "1", "a", "b", "/", "{", "}", ";", "F", "M", "T",
              " (powered by porter ", "v", ")">>

Code(ch) == CHOOSE i \in 1..Len(Alphabet) : Alphabet[i] = ch

\* sha256.Sum256 as a polynomial digest of 16 bits: a number that depends on
\* every character and on nothing else, without collisions on the contents
\* this model stages (DigestIsCollisionFree).
RECURSIVE Sum256(_)
Sum256(b) ==
  IF b = <<>> THEN 0
  ELSE (31 * Sum256(SubSeq(b, 1, Len(b) - 1)) + Code(b[Len(b)])) % 65536

\* hex.EncodeToString: fixed width, lowercase.
EncodeToString(n) ==
  <<HexDigit[((n \div 4096) % 16) + 1], HexDigit[((n \div 256) % 16) + 1],
    HexDigit[((n \div 16) % 16) + 1], HexDigit[(n % 16) + 1]>>

s3KeyOptTemplate == 1

s3KeyOptDeployment == 2

\* prefixOpt & bit == bit, for the two option bits.
HasOpt(prefixOpt, bit) == (prefixOpt \div bit) % 2 = 1

\* fmt.Sprintf("%s/%s/%s/%s", ...): the arguments joined by "/".
Sprintf4(a, b, c, d) == a \o <<"/">> \o b \o <<"/">> \o c \o <<"/">> \o d

\* s3KeyRoot with the service version left out of the key.
s3KeyRootWithoutVersion(cfg, env, prefixOpt) ==
  IF HasOpt(prefixOpt, 1)
  THEN <<"porter-template">> \o <<"/">> \o cfg.ServiceName \o <<"/">> \o env.Name
  ELSE <<"porter-deployment">> \o <<"/">> \o cfg.ServiceName \o <<"/">> \o env.Name

\* s3KeyRoot; <<"panic">> stands for the panic of an invalid option.
s3KeyRoot(cfg, env, prefixOpt) ==
  IF HasOpt(prefixOpt, s3KeyOptTemplate)
  THEN Sprintf4(<<"porter-template">>, cfg.ServiceName, env.Name, cfg.ServiceVersion)
  ELSE IF HasOpt(prefixOpt, s3KeyOptDeployment)
  THEN Sprintf4(<<"porter-deployment">>, cfg.ServiceName, env.Name, cfg.ServiceVersion)
  ELSE <<"panic">>

\* uploadServicePayload: fmt.Sprintf("%s/%s.tar", s3KeyRoot(deployment), checksum)
PayloadKey(cfg, env, checksum) ==
  s3KeyRoot(cfg, env, s3KeyOptDeployment) \o <<"/">> \o checksum \o <<".tar">>

\* createStack: fmt.Sprintf("%s/%s", s3KeyRoot(template), checksum)
TemplateKey(cfg, env, checksum) ==
  s3KeyRoot(cfg, env, s3KeyOptTemplate) \o <<"/">> \o checksum

\* ------------------------------------------------------------------ S3

\* An object store: a set of [Key, Body, Puts] with at most one object per
\* key; Puts counts the uploads the key has received.
HasObject(bucket, key) == \E o \in bucket : o.Key = key

ObjectAt(bucket, key) == CHOOSE o \in bucket : o.Key = key

\* s3manager.Upload: the object at key is created or replaced.
PutObject(bucket, key, body) ==
  {o \in bucket : o.Key # key}
    \cup {[Key |-> key, Body |-> body,
           Puts |-> IF HasObject(bucket, key) THEN ObjectAt(bucket, key).Puts + 1 ELSE 1]}

\* The message of the awserr.RequestFailure HeadObject returns: its status
\* code and request id (the rest of the text holds no digit).
StatusDigits(code) ==
  CASE code = 403 -> <<"4", "0", "3">>
    [] code = 404 -> <<"4", "0", "4">>
    [] OTHER      -> <<"5", "0", "0">>

ErrorMessage(code, requestId) == StatusDigits(code) \o <<",">> \o requestId

\* ProbeDecision without the fast path: an object found is uploaded again.
ProbeDecisionWithoutFastPath(code, length, requestId) ==
  IF code = 200 \/ Contains(ErrorMessage(code, requestId), <<"4", "0", "4">>)
  THEN "upload"
  ELSE "fail"

\* ProbeDecision that takes every object found as staged, whatever its length.
ProbeDecisionAnyLength(code, length, requestId) ==
  IF code = 200
  THEN "exists"
  ELSE IF ~Contains(ErrorMessage(code, requestId), <<"4", "0", "4">>)
       THEN "fail"
       ELSE "upload"

\* What uploadServicePayload does with HeadObject's answer.  code 200 is a
\* nil error; length is *ContentLength, or -1 for a nil ContentLength.
\*   "exists" : success without upload
\*   "upload" : go on to the upload
\*   "fail"   : return without success
ProbeDecision(code, length, requestId) ==
  IF code = 200
  THEN IF length # -1 /\ length > 0 THEN "exists" ELSE "upload"
  ELSE IF ~Contains(ErrorMessage(code, requestId), <<"4", "0", "4">>)
       THEN "fail"
       ELSE "upload"

\* The UploadInput before one is built: every field nil.
NoUploadInput ==
  [Bucket |-> <<>>, Key |-> <<>>, Body |-> <<>>, ContentType |-> "",
   SSEKMSKeyId |-> Nil, ServerSideEncryption |-> Nil]

\* uploadServicePayload lines 131-138: the payload's UploadInput.
PayloadUploadInput(rgn, key, body) ==
  [Bucket |-> rgn.S3Bucket, Key |-> key, Body |-> body,
   ContentType |-> "application/x-tar",
   SSEKMSKeyId |-> Nil, ServerSideEncryption |-> Nil]

\* TemplateUploadInput that asks for aws:kms encryption whatever the region.
TemplateUploadInputAlwaysEncrypted(rgn, key, body) ==
  [Bucket |-> rgn.S3Bucket, Key |-> key, Body |-> body,
   ContentType |-> "application/json",
   SSEKMSKeyId |-> rgn.SSEKMSKeyId, ServerSideEncryption |-> aws_String("aws:kms")]

\* createStack lines 177-187: the template's UploadInput.
TemplateUploadInput(rgn, key, body) ==
  LET uploadInput0 ==
        [Bucket |-> rgn.S3Bucket, Key |-> key, Body |-> body,
         ContentType |-> "application/json",
         SSEKMSKeyId |-> Nil, ServerSideEncryption |-> Nil]
  IN  IF rgn.SSEKMSKeyId # Nil
      THEN [uploadInput0 EXCEPT !.SSEKMSKeyId = rgn.SSEKMSKeyId,
                                !.ServerSideEncryption = aws_String("aws:kms")]
      ELSE uploadInput0

\* createStack lines 203-204: fmt.Sprintf("https://s3.amazonaws.com/%s/%s", ...)
TemplateUrl(bucket, key) ==
  <<"https://s3.amazonaws.com/">> \o bucket \o <<"/">> \o key

\* CfnApiInput with the secrets key and the secrets location in each other's
\* place.
CfnApiInputSwappingSecrets(env, rgn, key, location, templateUrl) ==
  [Environment |-> env.Name, Region |-> rgn.Name, SecretsKey |-> location,
   SecretsLoc |-> key, TemplateUrl |-> templateUrl]

\* createStack lines 206-212.
CfnApiInput(env, rgn, key, location, templateUrl) ==
  [Environment |-> env.Name, Region |-> rgn.Name, SecretsKey |-> key,
   SecretsLoc |-> location, TemplateUrl |-> templateUrl]

\* No CfnApiInput built.
NoParams ==
  [Environment |-> <<>>, Region |-> <<>>, SecretsKey |-> <<>>,
   SecretsLoc |-> <<>>, TemplateUrl |-> <<>>]

\* One executed operation and whether it succeeded.
Step(op, ok) == [op |-> op, ok |-> ok]

\* ------------------------------------------------------------ template

\* The stack definition files environment.GetStackDefinitionPath can name:
\* "" is no custom definition.
StackDefinitionPaths == {"", "stack.json"}

\* cfn.NewTemplate()
NewTemplate == [Description |-> <<>>, Resources |-> <<>>]

\* json.NewDecoder(stackFile).Decode(template): the custom definition
\* declares the resource F.
Decode(template) == [template EXCEPT !.Resources = <<"F">>]

\* mutateTemplate going on to the mapping after ensureResources failed.
mutateTemplateIgnoringEnsure(template, serviceName, ensureOk, mapOk) ==
  [template |-> [template EXCEPT
                   !.Description = serviceName \o <<" (powered by porter ", "v", ")">>,
                   !.Resources = @ \o <<"M", "T">>],
   success |-> mapOk,
   steps |-> <<Step("Description", TRUE), Step("ensureResources", ensureOk),
               Step("mapResources", mapOk)>>]

\* mutateTemplate.  ensureOk and mapOk are what recv.ensureResources and
\* recv.mapResources return; each leaves its mark (M, T) in the resources of
\* the template it worked on.  The result carries the sub-steps in the order
\* they ran.
mutateTemplate(template, serviceName, ensureOk, mapOk) ==
  LET described ==
        [template EXCEPT !.Description =
           serviceName \o <<" (powered by porter ", "v", ")">>]
      ensured == [described EXCEPT !.Resources = @ \o <<"M">>]
      mapped == [ensured EXCEPT !.Resources = @ \o <<"T">>]
  IN  IF ~ensureOk
      THEN [template |-> ensured, success |-> FALSE,
            steps |-> <<Step("Description", TRUE), Step("ensureResources", FALSE)>>]
      ELSE IF ~mapOk
      THEN [template |-> mapped, success |-> FALSE,
            steps |-> <<Step("Description", TRUE), Step("ensureResources", TRUE),
                        Step("mapResources", FALSE)>>]
      ELSE [template |-> mapped, success |-> TRUE,
            steps |-> <<Step("Description", TRUE), Step("ensureResources", TRUE),
                        Step("mapResources", TRUE)>>]

\* json.Marshal(template)
Marshal(template) ==
  <<"{">> \o template.Description \o <<";">> \o template.Resources \o <<"}">>

\* createTemplate.  in: what the calls it makes answer
\*   pathOk, path : environment.GetStackDefinitionPath
\*   openOk, decodeOk, parseOk, ensureOk, mapOk, marshalOk : os.Open,
\*   Decode, template.ParseResources, ensureResources, mapResources, Marshal
\* The outcome of ParseResources is in the steps only: the code reads none.
createTemplate(serviceName, in) ==
  LET fail(steps) == [templateBytes |-> <<>>, success |-> FALSE, steps |-> steps]
      s1 == <<Step("GetStackDefinitionPath", in.pathOk)>>
      s2 == IF in.path = "" THEN s1 ELSE Append(s1, Step("Open", in.openOk))
      s3a == IF in.path = "" THEN s2 ELSE Append(s2, Step("Decode", in.decodeOk))
      template == IF in.path = "" THEN NewTemplate ELSE Decode(NewTemplate)
      s4 == Append(s3a, Step("ParseResources", in.parseOk))
      m == mutateTemplate(template, serviceName, in.ensureOk, in.mapOk)
      s5 == s4 \o m.steps
      s6 == Append(s5, Step("Marshal", in.marshalOk))
  IN  IF ~in.pathOk THEN fail(s1)
      ELSE IF in.path # "" /\ ~in.openOk THEN fail(s2)
      ELSE IF in.path # "" /\ ~in.decodeOk THEN fail(s3a)
      ELSE IF ~m.success THEN fail(s5)
      ELSE IF ~in.marshalOk THEN fail(s6)
      ELSE [templateBytes |-> Marshal(m.template), success |-> TRUE, steps |-> s6]

TemplateInputs ==
  [pathOk : BOOLEAN, path : StackDefinitionPaths, openOk : BOOLEAN,
   decodeOk : BOOLEAN, parseOk : BOOLEAN, ensureOk : BOOLEAN, mapOk : BOOLEAN,
   marshalOk : BOOLEAN]

\* ------------------------------------------------------------------ Init

NoAnswer == [code |-> 0, ContentLength |-> -1]

\* The state after the stackCreators of the host are built, for the
\* configuration cfg of environment env and the encryption keys keyIds of
\* the regions, with the payload packed.
InitWith(cfg, env, keyIds) ==
  /\ config = cfg
  /\ environment = env
  /\ region = [c \in Creators |->
                 [Name |-> <<c>>, S3Bucket |-> <<"porter-", c>>,
                  SSEKMSKeyId |-> keyIds[c]]]
  /\ secretsKey = [c \in Creators |-> <<>>]
  /\ secretsLocation = [c \in Creators |-> <<>>]
  /\ uploadInput = [c \in Creators |-> NoUploadInput]
  /\ params = [c \in Creators |-> NoParams]
  /\ payloadFile \in {File(b) : b \in Payloads}
  /\ templateFile = NoFile
  /\ s3 = [c \in Creators |-> {}]
  /\ pc = [c \in Creators |-> "idle"]
  /\ payloadBytes = [c \in Creators |-> <<>>]
  /\ headObject = [c \in Creators |-> NoAnswer]
  /\ success = [c \in Creators |-> FALSE]
  /\ servicePayloadKey = [c \in Creators |-> <<>>]
  /\ servicePayloadChecksum = [c \in Creators |-> <<>>]
  /\ templateBytes = [c \in Creators |-> <<>>]
  /\ stackId = [c \in Creators |-> <<>>]
  /\ regionState = [c \in Creators |-> [StackId |-> <<>>, Other |-> "as built"]]
  /\ result = [c \in Creators |-> "none"]
  /\ trace = [c \in Creators |-> <<>>]
  /\ stateBefore = regionState
  /\ fileAtCall = [c \in Creators |-> NoFile]
  /\ calls = 0

\* One service in one environment, without encryption keys.
Init ==
  InitWith([ServiceName |-> <<"a">>, ServiceVersion |-> <<"1">>], [Name |-> <<"b">>],
           [c \in Creators |-> Nil])

\* The same service and environment; us-east-1 with or without an encryption
\* key, us-west-2 without.
InitEncryption ==
  \E keyId \in SSEKMSKeyIds :
    InitWith([ServiceName |-> <<"a">>, ServiceVersion |-> <<"1">>], [Name |-> <<"b">>],
             [c \in Creators |-> IF c = "us-east-1" THEN keyId ELSE Nil])

\* Every configuration, without encryption keys.
InitKeys ==
  \E cfg \in [ServiceName : Names, ServiceVersion : Versions], env \in [Name : Names] :
    InitWith(cfg, env, [c \in Creators |-> Nil])

\* ------------------------------------------- createUpdateStackForRegion

cfgVars == <<config, environment, region>>

\* createUpdateStackForRegion returns r ("true" or "false") to its caller.
Return(c, r) ==
  /\ pc' = [pc EXCEPT ![c] = "idle"]
  /\ result' = [result EXCEPT ![c] = r]

Log(c, step) == trace' = [trace EXCEPT ![c] = Append(@, step)]

\* The caller invokes createUpdateStackForRegion(regionState) on creator c.
Call(c) ==
  /\ pc[c] = "idle"
  /\ calls < MaxCalls
  /\ calls' = calls + 1
  /\ pc' = [pc EXCEPT ![c] = "ReadFile"]
  /\ trace' = [trace EXCEPT ![c] = <<>>]
  /\ result' = [result EXCEPT ![c] = "none"]
  /\ success' = [success EXCEPT ![c] = FALSE]
  /\ headObject' = [headObject EXCEPT ![c] = NoAnswer]
  /\ stateBefore' = [stateBefore EXCEPT ![c] = regionState[c]]
  /\ fileAtCall' = [fileAtCall EXCEPT ![c] = payloadFile]
  /\ payloadBytes' = [payloadBytes EXCEPT ![c] = <<>>]
  /\ templateBytes' = [templateBytes EXCEPT ![c] = <<>>]
  /\ stackId' = [stackId EXCEPT ![c] = <<>>]
  /\ uploadInput' = [uploadInput EXCEPT ![c] = NoUploadInput]
  /\ params' = [params EXCEPT ![c] = NoParams]
  /\ UNCHANGED <<cfgVars, secretsKey, secretsLocation,
                 payloadFile, templateFile, s3,
                 servicePayloadKey, servicePayloadChecksum, regionState>>

\* The packer leaves a new payload at constants.PayloadPath for the next
\* provisioning, when the calls of the last one have returned and their
\* results have been taken.
Pack(b) ==
  /\ \A c \in Creators : pc[c] = "idle"
  /\ calls > 0
  /\ calls < MaxCalls
  /\ payloadFile' = File(b)
  /\ payloadFile' # payloadFile
  /\ result' = [c \in Creators |-> "none"]
  /\ trace' = [c \in Creators |-> <<>>]
  /\ success' = [c \in Creators |-> FALSE]
  /\ stackId' = [c \in Creators |-> <<>>]
  /\ templateBytes' = [c \in Creators |-> <<>>]
  /\ stateBefore' = regionState
  /\ fileAtCall' = [c \in Creators |-> NoFile]
  /\ uploadInput' = [c \in Creators |-> NoUploadInput]
  /\ params' = [c \in Creators |-> NoParams]
  /\ UNCHANGED <<cfgVars, secretsKey, secretsLocation,
                 templateFile, s3, pc, payloadBytes, headObject,
                 servicePayloadKey, servicePayloadChecksum, regionState, calls>>

\* ReadFile that keeps a key the creator already holds.
ReadFileKeepingKey(c) ==
  /\ pc[c] = "ReadFile"
  /\ IF payloadFile.exists
     THEN /\ payloadBytes' = [payloadBytes EXCEPT ![c] = payloadFile.bytes]
          /\ servicePayloadKey' =
               [servicePayloadKey EXCEPT ![c] =
                  IF @ = <<>>
                  THEN PayloadKey(config, environment,
                                  EncodeToString(Sum256(payloadFile.bytes)))
                  ELSE @]
          /\ Log(c, Step("ReadFile", TRUE))
          /\ pc' = [pc EXCEPT ![c] = "HeadObject"]
     ELSE /\ Log(c, Step("ReadFile", FALSE))
          /\ pc' = [pc EXCEPT ![c] = "rm"]
          /\ UNCHANGED <<payloadBytes, servicePayloadKey>>
  /\ UNCHANGED <<cfgVars, secretsKey, secretsLocation, uploadInput, params,
                 payloadFile, templateFile, s3, headObject, success,
                 servicePayloadChecksum, templateBytes, stackId, regionState,
                 result, stateBefore, fileAtCall, calls>>

\* ReadFile with the removal registered after the read: a failed read
\* returns without it.
ReadFileBeforeDefer(c) ==
  /\ pc[c] = "ReadFile"
  /\ IF payloadFile.exists
     THEN /\ payloadBytes' = [payloadBytes EXCEPT ![c] = payloadFile.bytes]
          /\ servicePayloadKey' =
               [servicePayloadKey EXCEPT ![c] =
                  PayloadKey(config, environment,
                             EncodeToString(Sum256(payloadFile.bytes)))]
          /\ Log(c, Step("ReadFile", TRUE))
          /\ pc' = [pc EXCEPT ![c] = "HeadObject"]
          /\ UNCHANGED result
     ELSE /\ Log(c, Step("ReadFile", FALSE))
          /\ Return(c, "false")
          /\ UNCHANGED <<payloadBytes, servicePayloadKey>>
  /\ UNCHANGED <<cfgVars, secretsKey, secretsLocation, uploadInput, params,
                 payloadFile, templateFile, s3, headObject, success,
                 servicePayloadChecksum, templateBytes, stackId, regionState,
                 stateBefore, fileAtCall, calls>>

\* ReadFile that goes on with no bytes when the payload file cannot be read.
ReadFileIgnoringError(c) ==
  /\ pc[c] = "ReadFile"
  /\ LET bytes == IF payloadFile.exists THEN payloadFile.bytes ELSE <<>>
         checksum == EncodeToString(Sum256(bytes))
     IN  /\ payloadBytes' = [payloadBytes EXCEPT ![c] = bytes]
         /\ servicePayloadChecksum' = [servicePayloadChecksum EXCEPT ![c] = checksum]
         /\ servicePayloadKey' =
              [servicePayloadKey EXCEPT ![c] = PayloadKey(config, environment, checksum)]
         /\ Log(c, Step("ReadFile", payloadFile.exists))
         /\ pc' = [pc EXCEPT ![c] = "HeadObject"]
  /\ UNCHANGED <<cfgVars, secretsKey, secretsLocation, uploadInput, params,
                 payloadFile, templateFile, s3, headObject, success,
                 templateBytes, stackId, regionState, result, stateBefore, fileAtCall, calls>>

\* uploadServicePayload, lines 97-109: read the payload, derive checksum and key.
ReadFile(c) ==
  /\ pc[c] = "ReadFile"
  /\ IF payloadFile.exists
     THEN LET checksum == EncodeToString(Sum256(payloadFile.bytes)) IN
          /\ payloadBytes' = [payloadBytes EXCEPT ![c] = payloadFile.bytes]
          /\ servicePayloadChecksum' = [servicePayloadChecksum EXCEPT ![c] = checksum]
          /\ servicePayloadKey' =
               [servicePayloadKey EXCEPT ![c] = PayloadKey(config, environment, checksum)]
          /\ Log(c, Step("ReadFile", TRUE))
          /\ pc' = [pc EXCEPT ![c] = "HeadObject"]
     ELSE /\ Log(c, Step("ReadFile", FALSE))
          /\ pc' = [pc EXCEPT ![c] = "rm"]
          /\ UNCHANGED <<payloadBytes, servicePayloadChecksum, servicePayloadKey>>
  /\ UNCHANGED <<cfgVars, secretsKey, secretsLocation, uploadInput, params,
                 payloadFile, templateFile, s3, headObject, success,
                 templateBytes, stackId, regionState, result, stateBefore, fileAtCall, calls>>

\* The answers S3 can give to HeadObject(bucket, key): the object with its
\* length when it is there, or an error of status 403, 404 or 500.
HeadAnswers(bucket, key) ==
  {[code |-> code, ContentLength |-> -1] : code \in {403, 404, 500}}
    \cup (IF HasObject(bucket, key)
          THEN {[code |-> 200, ContentLength |-> Len(ObjectAt(bucket, key).Body)]}
          ELSE {})

\* uploadServicePayload, lines 111-129: probe the key and classify the answer.
HeadObject(c) ==
  /\ pc[c] = "HeadObject"
  /\ \E answer \in HeadAnswers(s3[c], servicePayloadKey[c]), requestId \in RequestIds :
       LET decision == ProbeDecision(answer.code, answer.ContentLength, requestId) IN
       /\ headObject' = [headObject EXCEPT ![c] = answer]
       /\ Log(c, Step("HeadObject", answer.code = 200))
       /\ success' = [success EXCEPT ![c] = (decision = "exists")]
       /\ pc' = [pc EXCEPT ![c] = IF decision = "upload" THEN "Upload" ELSE "rm"]
  /\ UNCHANGED <<cfgVars, secretsKey, secretsLocation, uploadInput, params,
                 payloadFile, templateFile, s3, payloadBytes,
                 servicePayloadKey, servicePayloadChecksum, templateBytes,
                 stackId, regionState, result, stateBefore, fileAtCall, calls>>

\* Upload that tries a second time when the first upload failed.
UploadRetrying(c) ==
  /\ pc[c] = "Upload"
  /\ \E ok \in BOOLEAN :
       LET input == PayloadUploadInput(region[c], servicePayloadKey[c], payloadBytes[c]) IN
       /\ uploadInput' = [uploadInput EXCEPT ![c] = input]
       /\ s3' = [s3 EXCEPT ![c] = IF ok THEN PutObject(@, input.Key, input.Body) ELSE @]
       /\ success' = [success EXCEPT ![c] = ok]
       /\ Log(c, Step("Upload", ok))
       /\ pc' = [pc EXCEPT ![c] =
                   IF ~ok /\ \A i \in DOMAIN trace[c] : trace[c][i].op # "Upload"
                   THEN "Upload"
                   ELSE "rm"]
  /\ UNCHANGED <<cfgVars, secretsKey, secretsLocation, params,
                 payloadFile, templateFile, payloadBytes, headObject,
                 servicePayloadKey, servicePayloadChecksum, templateBytes,
                 stackId, regionState, result, stateBefore, fileAtCall, calls>>

\* uploadServicePayload, lines 131-154: upload the payload under the key.
Upload(c) ==
  /\ pc[c] = "Upload"
  /\ \E ok \in BOOLEAN :
       LET input == PayloadUploadInput(region[c], servicePayloadKey[c], payloadBytes[c]) IN
       /\ uploadInput' = [uploadInput EXCEPT ![c] = input]
       /\ s3' = [s3 EXCEPT ![c] = IF ok THEN PutObject(@, input.Key, input.Body) ELSE @]
       /\ success' = [success EXCEPT ![c] = ok]
       /\ Log(c, Step("Upload", ok))
  /\ pc' = [pc EXCEPT ![c] = "rm"]
  /\ UNCHANGED <<cfgVars, secretsKey, secretsLocation, params,
                 payloadFile, templateFile, payloadBytes, headObject,
                 servicePayloadKey, servicePayloadChecksum, templateBytes,
                 stackId, regionState, result, stateBefore, fileAtCall, calls>>

\* rm after which the caller goes on whatever uploadServicePayload returned.
rmThenContinue(c) ==
  /\ pc[c] = "rm"
  /\ \E removed \in BOOLEAN :
       payloadFile' = IF removed THEN NoFile ELSE payloadFile
  /\ Log(c, Step("rm", TRUE))
  /\ payloadBytes' = [payloadBytes EXCEPT ![c] = <<>>]
  /\ headObject' = [headObject EXCEPT ![c] = NoAnswer]
  /\ uploadInput' = [uploadInput EXCEPT ![c] = NoUploadInput]
  /\ pc' = [pc EXCEPT ![c] = "uploadSecrets"]
  /\ UNCHANGED <<cfgVars, secretsKey, secretsLocation, params,
                 templateFile, s3, success, servicePayloadKey,
                 servicePayloadChecksum, templateBytes, stackId, regionState,
                 result, stateBefore, fileAtCall, calls>>

\* uploadServicePayload's deferred rm -rf of the payload (line 95), run as the
\* function returns and its locals go, then createUpdateStackForRegion lines
\* 71-75.  Run's error is dropped: whether the file went shows in payloadFile
\* alone.
rm(c) ==
  /\ pc[c] = "rm"
  /\ \E removed \in BOOLEAN :
       payloadFile' = IF removed THEN NoFile ELSE payloadFile
  /\ Log(c, Step("rm", TRUE))
  /\ payloadBytes' = [payloadBytes EXCEPT ![c] = <<>>]
  /\ headObject' = [headObject EXCEPT ![c] = NoAnswer]
  /\ uploadInput' = [uploadInput EXCEPT ![c] = NoUploadInput]
  /\ IF success[c]
     THEN pc' = [pc EXCEPT ![c] = "uploadSecrets"] /\ UNCHANGED result
     ELSE Return(c, "false")
  /\ UNCHANGED <<cfgVars, secretsKey, secretsLocation, params,
                 templateFile, s3, success,
                 servicePayloadKey, servicePayloadChecksum, templateBytes,
                 stackId, regionState, stateBefore, fileAtCall, calls>>

\* uploadSecrets that takes the staged payload out of the bucket when it fails.
uploadSecretsRollingBack(c) ==
  /\ pc[c] = "uploadSecrets"
  /\ \E ok \in BOOLEAN, key \in SecretsKeys, location \in SecretsLocations :
       /\ Log(c, Step("uploadSecrets", ok))
       /\ IF ok
          THEN /\ secretsKey' = [secretsKey EXCEPT ![c] = key]
               /\ secretsLocation' = [secretsLocation EXCEPT ![c] = location]
               /\ pc' = [pc EXCEPT ![c] = "createTemplate"]
               /\ UNCHANGED <<result, s3>>
          ELSE /\ UNCHANGED <<secretsKey, secretsLocation>>
               /\ s3' = [s3 EXCEPT ![c] = {o \in @ : o.Key # servicePayloadKey[c]}]
               /\ Return(c, "false")
  /\ UNCHANGED <<cfgVars, uploadInput, params,
                 payloadFile, templateFile, payloadBytes, headObject,
                 success, servicePayloadKey, servicePayloadChecksum, templateBytes,
                 stackId, regionState, stateBefore, fileAtCall, calls>>

\* createUpdateStackForRegion lines 77-80: recv.uploadSecrets(checksum).
uploadSecrets(c) ==
  /\ pc[c] = "uploadSecrets"
  /\ \E ok \in BOOLEAN, key \in SecretsKeys, location \in SecretsLocations :
       /\ Log(c, Step("uploadSecrets", ok))
       /\ IF ok
          THEN /\ secretsKey' = [secretsKey EXCEPT ![c] = key]
               /\ secretsLocation' = [secretsLocation EXCEPT ![c] = location]
               /\ pc' = [pc EXCEPT ![c] = "createTemplate"]
               /\ UNCHANGED result
          ELSE /\ UNCHANGED <<secretsKey, secretsLocation>>
               /\ Return(c, "false")
  /\ UNCHANGED <<cfgVars, uploadInput, params,
                 payloadFile, templateFile, s3, payloadBytes, headObject,
                 success, servicePayloadKey, servicePayloadChecksum, templateBytes,
                 stackId, regionState, stateBefore, fileAtCall, calls>>

\* createStack lines 161-164: recv.createTemplate().
CreateTemplate(c) ==
  /\ pc[c] = "createTemplate"
  /\ \E in \in TemplateInputs :
       LET t == createTemplate(config.ServiceName, in) IN
       /\ trace' = [trace EXCEPT ![c] = @ \o t.steps]
       /\ templateBytes' = [templateBytes EXCEPT ![c] = t.templateBytes]
       /\ IF t.success
          THEN pc' = [pc EXCEPT ![c] = "WriteFile"] /\ UNCHANGED result
          ELSE Return(c, "false")
  /\ UNCHANGED <<cfgVars, secretsKey, secretsLocation, uploadInput, params,
                 payloadFile, templateFile, s3, payloadBytes, headObject,
                 success, servicePayloadKey, servicePayloadChecksum,
                 stackId, regionState, stateBefore, fileAtCall, calls>>

\* WriteFile after which createStack goes on to the upload whether or not the
\* write succeeded.
WriteFileThenContinue(c) ==
  /\ pc[c] = "WriteFile"
  /\ \E ok \in BOOLEAN :
       /\ Log(c, Step("WriteFile", ok))
       /\ IF ok
          THEN templateFile' = File(templateBytes[c])
          ELSE templateFile' \in {templateFile, File(<<>>)}
       /\ pc' = [pc EXCEPT ![c] = "TemplateUpload"]
       /\ UNCHANGED result
  /\ UNCHANGED <<cfgVars, secretsKey, secretsLocation, uploadInput, params,
                 payloadFile, s3, payloadBytes, headObject,
                 success, servicePayloadKey, servicePayloadChecksum, templateBytes,
                 stackId, regionState, stateBefore, fileAtCall, calls>>

\* createStack lines 166-171: mirror the template at the local path.  A
\* failed write may have truncated the file.
WriteFile(c) ==
  /\ pc[c] = "WriteFile"
  /\ \E ok \in BOOLEAN :
       /\ Log(c, Step("WriteFile", ok))
       /\ IF ok
          THEN /\ templateFile' = File(templateBytes[c])
               /\ pc' = [pc EXCEPT ![c] = "TemplateUpload"]
               /\ UNCHANGED result
          ELSE /\ templateFile' \in {templateFile, File(<<>>)}
               /\ Return(c, "false")
  /\ UNCHANGED <<cfgVars, secretsKey, secretsLocation, uploadInput, params,
                 payloadFile, s3, payloadBytes, headObject,
                 success, servicePayloadKey, servicePayloadChecksum, templateBytes,
                 stackId, regionState, stateBefore, fileAtCall, calls>>

\* TemplateUpload that leaves out the upload when the key holds an object.
TemplateUploadIfAbsent(c) ==
  /\ pc[c] = "TemplateUpload"
  /\ LET templateS3Key ==
           TemplateKey(config, environment, EncodeToString(Sum256(templateBytes[c])))
     IN IF HasObject(s3[c], templateS3Key)
        THEN /\ pc' = [pc EXCEPT ![c] = "cfnAPI"]
             /\ UNCHANGED <<s3, trace, result, uploadInput>>
        ELSE \E ok \in BOOLEAN :
               /\ Log(c, Step("TemplateUpload", ok))
               /\ uploadInput' =
                    [uploadInput EXCEPT ![c] =
                       TemplateUploadInput(region[c], templateS3Key, templateBytes[c])]
               /\ IF ok
                  THEN /\ s3' = [s3 EXCEPT ![c] =
                                   PutObject(@, templateS3Key, templateBytes[c])]
                       /\ pc' = [pc EXCEPT ![c] = "cfnAPI"]
                       /\ UNCHANGED result
                  ELSE /\ UNCHANGED s3
                       /\ Return(c, "false")
  /\ UNCHANGED <<cfgVars, secretsKey, secretsLocation, params,
                 payloadFile, templateFile, payloadBytes, headObject,
                 success, servicePayloadKey, servicePayloadChecksum, templateBytes,
                 stackId, regionState, stateBefore, fileAtCall, calls>>

\* createStack lines 173-201: upload the template under its key.
TemplateUpload(c) ==
  /\ pc[c] = "TemplateUpload"
  /\ \E ok \in BOOLEAN :
       LET checksum == EncodeToString(Sum256(templateBytes[c]))
           templateS3Key == TemplateKey(config, environment, checksum)
           input == TemplateUploadInput(region[c], templateS3Key, templateBytes[c])
       IN
       /\ Log(c, Step("TemplateUpload", ok))
       /\ uploadInput' = [uploadInput EXCEPT ![c] = input]
       /\ IF ok
          THEN /\ s3' = [s3 EXCEPT ![c] = PutObject(@, input.Key, input.Body)]
               /\ pc' = [pc EXCEPT ![c] = "cfnAPI"]
               /\ UNCHANGED result
          ELSE /\ UNCHANGED s3
               /\ Return(c, "false")
  /\ UNCHANGED <<cfgVars, secretsKey, secretsLocation, params,
                 payloadFile, templateFile, payloadBytes, headObject,
                 success, servicePayloadKey, servicePayloadChecksum, templateBytes,
                 stackId, regionState, stateBefore, fileAtCall, calls>>

\* cfnAPI whose stack id is recorded whether or not the call succeeded.
cfnAPIRecordingAlways(c) ==
  /\ pc[c] = "cfnAPI"
  /\ \E id \in StackIds, ok \in BOOLEAN :
       LET templateS3Key ==
             TemplateKey(config, environment, EncodeToString(Sum256(templateBytes[c])))
           templateUrl == TemplateUrl(region[c].S3Bucket, templateS3Key)
       IN
       /\ params' = [params EXCEPT ![c] =
                       CfnApiInput(environment, region[c], secretsKey[c],
                                   secretsLocation[c], templateUrl)]
       /\ Log(c, Step("cfnAPI", ok))
       /\ stackId' = [stackId EXCEPT ![c] = id]
       /\ regionState' = [regionState EXCEPT ![c].StackId = id]
       /\ Return(c, IF ok THEN "true" ELSE "false")
  /\ UNCHANGED <<cfgVars, secretsKey, secretsLocation, uploadInput,
                 payloadFile, templateFile, s3, payloadBytes, headObject,
                 success, servicePayloadKey, servicePayloadChecksum, templateBytes,
                 stateBefore, fileAtCall, calls>>

\* createStack lines 203-215 and createUpdateStackForRegion lines 82-90:
\* recv.cfnAPI(client, params), then the write of regionState.StackId.
cfnAPI(c) ==
  /\ pc[c] = "cfnAPI"
  /\ \E id \in StackIds, ok \in BOOLEAN :
       LET templateS3Key ==
             TemplateKey(config, environment, EncodeToString(Sum256(templateBytes[c])))
           templateUrl == TemplateUrl(region[c].S3Bucket, templateS3Key)
       IN
       /\ params' = [params EXCEPT ![c] =
                       CfnApiInput(environment, region[c], secretsKey[c],
                                   secretsLocation[c], templateUrl)]
       /\ Log(c, Step("cfnAPI", ok))
       /\ stackId' = [stackId EXCEPT ![c] = id]
       /\ regionState' =
            [regionState EXCEPT ![c].StackId = IF ok THEN id ELSE @]
       /\ Return(c, IF ok THEN "true" ELSE "false")
  /\ UNCHANGED <<cfgVars, secretsKey, secretsLocation, uploadInput,
                 payloadFile, templateFile, s3, payloadBytes, headObject,
                 success, servicePayloadKey, servicePayloadChecksum, templateBytes,
                 stateBefore, fileAtCall, calls>>

\* One step of creator c.
Run(c) ==
  \/ Call(c)
  \/ ReadFile(c)
  \/ HeadObject(c)
  \/ Upload(c)
  \/ rm(c)
  \/ uploadSecrets(c)
  \/ CreateTemplate(c)
  \/ WriteFile(c)
  \/ TemplateUpload(c)
  \/ cfnAPI(c)

Next ==
  \/ \E b \in Payloads : Pack(b)
  \/ Run("us-east-1")

\* One creator, called again and again.
Spec == Init /\ [][Next]_vars

\* The same, in a region with or without an encryption key.
SpecEncryption == InitEncryption /\ [][Next]_vars

\* The same, under every configuration.
SpecKeys == InitKeys /\ [][Next]_vars

NextConcurrent ==
  \/ \E b \in Payloads : Pack(b)
  \/ \E c \in Creators : Run(c)

\* The creators of one host, called concurrently.
SpecConcurrent == Init /\ [][NextConcurrent]_vars

\* ------------------------------------------------------ reading the trace

Did(c, op) == \E i \in DOMAIN trace[c] : trace[c][i].op = op

Ok(c, op) == \E i \in DOMAIN trace[c] : trace[c][i].op = op /\ trace[c][i].ok

Count(c, op) == Cardinality({i \in DOMAIN trace[c] : trace[c][i].op = op})

Index(c, op) == CHOOSE i \in DOMAIN trace[c] : trace[c][i].op = op

\* createUpdateStackForRegion has returned to its caller.
Returned(c) == pc[c] = "idle" /\ result[c] # "none"

\* uploadServicePayload has returned without success.
StagingFailed(c) == Did(c, "rm") /\ ~success[c]

\* Everything createUpdateStackForRegion does after uploadServicePayload.
LaterOps ==
  {"uploadSecrets", "GetStackDefinitionPath", "Open", "Decode", "ParseResources",
   "Description", "ensureResources", "mapResources", "Marshal", "WriteFile",
   "TemplateUpload", "cfnAPI"}

IsTemplateKey(key) == key[1] = "porter-template"

\* ------------------------------------------------------------------- C1

\* C1: when artifact staging fails (the read, the probe or the upload), the
\* call has returned false, none of secrets staging, template work and
\* dispatch has run in it, and the caller's region state is as it was before
\* the call.
FailFastPropagation ==
  \A c \in Creators :
    StagingFailed(c) =>
      /\ Returned(c) /\ result[c] = "false"
      /\ \A op \in LaterOps : ~Did(c, op)
      /\ regionState[c] = stateBefore[c]

\* A second call, on a region that holds a stack id, fails at the upload.
FailFastWitness ==
  \E c \in Creators :
    /\ StagingFailed(c) /\ Did(c, "Upload")
    /\ stateBefore[c].StackId # <<>>

\* ------------------------------------------------------------------- C2

\* Every stage of the call succeeded.
FullSuccess(c) ==
  /\ success[c]
  /\ Ok(c, "uploadSecrets")
  /\ Ok(c, "Marshal") /\ Ok(c, "WriteFile") /\ Ok(c, "TemplateUpload")
  /\ Ok(c, "cfnAPI")

\* C2: the region state differs from its value before the call only if the
\* call returned true; the call returns true exactly when staging, secrets,
\* template and dispatch all succeeded; and then the state is the old one
\* with StackId set to the dispatch's stack id.
MutatedOnlyOnFullSuccess ==
  \A c \in Creators :
    /\ regionState[c] # stateBefore[c] => result[c] = "true"
    /\ Returned(c) => (result[c] = "true" <=> FullSuccess(c))
    /\ result[c] = "true" =>
         regionState[c] = [stateBefore[c] EXCEPT !.StackId = stackId[c]]

\* A call that replaced the stack id of an earlier call.
FullSuccessWitness ==
  \E c \in Creators :
    /\ result[c] = "true"
    /\ stateBefore[c].StackId # <<>>
    /\ regionState[c].StackId # stateBefore[c].StackId

\* ------------------------------------------------------------------- C3

\* C3 (as stated): whenever the probe finds the object at the payload's key,
\* the payload is not uploaded.
IdempotentStaging ==
  \A c \in Creators :
    headObject[c].code = 200 => pc[c] # "Upload" /\ ~Did(c, "Upload")

\* C3 (amended): whenever the probe finds the object at the key of a
\* non-empty payload, staging succeeds with that key without an upload, and
\* the object there holds the payload's bytes.
IdempotentStagingOfNonEmpty ==
  \A c \in Creators :
    (headObject[c].code = 200 /\ payloadBytes[c] # <<>>) =>
      /\ pc[c] = "rm" /\ success[c]
      /\ ~Did(c, "Upload")
      /\ HasObject(s3[c], servicePayloadKey[c])
      /\ ObjectAt(s3[c], servicePayloadKey[c]).Body = payloadBytes[c]

\* The second staging of a non-empty payload takes the fast path.
IdempotentStagingWitness ==
  \E c \in Creators :
    /\ headObject[c].code = 200 /\ payloadBytes[c] # <<>>
    /\ pc[c] = "rm"
    /\ ObjectAt(s3[c], servicePayloadKey[c]).Puts = 1

\* ------------------------------------------------------------------- C4

\* C4: a not-found answer of the probe leads to the upload; a forbidden
\* answer, and any other error, fails the stage without an upload.
ProbeClassification ==
  \A c \in Creators :
    /\ headObject[c].code = 404 => pc[c] = "Upload" \/ Did(c, "Upload")
    /\ headObject[c].code \in {403, 500} =>
         /\ pc[c] # "Upload"
         /\ ~Did(c, "Upload")
         /\ ~success[c]

\* ------------------------------------------------------------------- C5

\* C5 (as stated): the template upload is preceded by a probe, and no
\* template key receives a second upload.
TemplateStagedLikeArtifact ==
  \A c \in Creators :
    /\ Did(c, "TemplateUpload") =>
         trace[c][Index(c, "TemplateUpload") - 1].op = "HeadObject"
    /\ \A o \in s3[c] : IsTemplateKey(o.Key) => o.Puts = 1

\* C5 (amended): the template is uploaded under its content-addressed key
\* without a probe: a call reaches the dispatch only through a template
\* upload of its own, whether or not the object is there already; the one
\* probe of a call is the payload's; and each upload leaves the template's
\* bytes under the key of their digest.
TemplateUploadedUnconditionally ==
  \A c \in Creators :
    /\ (pc[c] = "cfnAPI" \/ Did(c, "cfnAPI")) => Ok(c, "TemplateUpload")
    /\ Count(c, "TemplateUpload") <= 1
    /\ Did(c, "TemplateUpload") =>
         trace[c][Index(c, "TemplateUpload") - 1] = Step("WriteFile", TRUE)
    /\ Count(c, "HeadObject") <= 1
    /\ (Did(c, "HeadObject") /\ Did(c, "rm")) => Index(c, "HeadObject") < Index(c, "rm")
    /\ pc[c] = "cfnAPI" =>
         LET key == TemplateKey(config, environment,
                                EncodeToString(Sum256(templateBytes[c])))
         IN  /\ HasObject(s3[c], key)
             /\ ObjectAt(s3[c], key).Body = templateBytes[c]
    /\ \A o \in s3[c] :
         IsTemplateKey(o.Key) =>
           o.Key = TemplateKey(config, environment, EncodeToString(Sum256(o.Body)))

\* The same template bytes staged twice: two uploads.
TemplateUploadedTwiceWitness ==
  \E c \in Creators :
    /\ pc[c] = "cfnAPI"
    /\ \E o \in s3[c] : IsTemplateKey(o.Key) /\ o.Body = templateBytes[c] /\ o.Puts = 2

\* ------------------------------------------------------------------- C6

Configs == [ServiceName : Names, ServiceVersion : Versions]

Environments == [Name : Names]

\* Every template createTemplate can produce, over all service names.
TemplateContents ==
  {createTemplate(n, in).templateBytes :
     n \in Names, in \in {i \in TemplateInputs : createTemplate(<<>>, i).success}}

SlashFree(str) == \A i \in DOMAIN str : str[i] # "/"

ConfigSlashFree(cfg, env) ==
  SlashFree(cfg.ServiceName) /\ SlashFree(env.Name) /\ SlashFree(cfg.ServiceVersion)

\* Every artifact there can be, with the key the code derives for it: the
\* payloads under the deployment prefix, the templates under the template
\* prefix.
Artifacts ==
  {[cfg |-> cfg, env |-> env, body |-> body, template |-> FALSE,
    key |-> PayloadKey(cfg, env, EncodeToString(Sum256(body)))] :
     cfg \in Configs, env \in Environments, body \in Payloads}
  \cup
  {[cfg |-> cfg, env |-> env, body |-> body, template |-> TRUE,
    key |-> TemplateKey(cfg, env, EncodeToString(Sum256(body)))] :
     cfg \in Configs, env \in Environments, body \in TemplateContents}

\* The objects creator c has just uploaded.
JustStaged(c) ==
  IF pc[c] = "rm" /\ Ok(c, "Upload")
  THEN {ObjectAt(s3[c], servicePayloadKey[c])}
  ELSE IF pc[c] = "cfnAPI"
  THEN {o \in s3[c] : IsTemplateKey(o.Key) /\ o.Body = templateBytes[c]}
  ELSE {}

\* Artifact a is another artifact than the one object o was staged from.
Differs(a, o) ==
  /\ a.template = IsTemplateKey(o.Key)
  /\ <<a.cfg, a.env, a.body>> # <<config, environment, o.Body>>

\* C6 (as stated): an artifact that differs from a staged one in service
\* name, environment, version or content has a different key.
KeyUniqueness ==
  \A c \in Creators : \A o \in JustStaged(c) : \A a \in Artifacts :
    Differs(a, o) => a.key # o.Key

\* C6 (amended): an artifact that differs from a staged one in content has
\* a different key; one that differs in service name, environment or version
\* has a different key provided none of the names and versions of the two
\* holds a "/".
KeyUniquenessWithoutSlash ==
  \A c \in Creators : \A o \in JustStaged(c) : \A a \in Artifacts :
    Differs(a, o) =>
      /\ a.body # o.Body => a.key # o.Key
      /\ (ConfigSlashFree(a.cfg, a.env) /\ ConfigSlashFree(config, environment))
           => a.key # o.Key

\* A payload and a template staged under names without "/", with other such
\* names to tell them from.
KeyUniquenessWitness ==
  \E c \in Creators :
    /\ ConfigSlashFree(config, environment)
    /\ JustStaged(c) # {}
    /\ \E o \in s3[c] : ~IsTemplateKey(o.Key)
    /\ pc[c] = "cfnAPI"
    /\ \E a \in Artifacts, o \in JustStaged(c) :
         Differs(a, o) /\ ConfigSlashFree(a.cfg, a.env) /\ a.body = o.Body

\* The digest tells apart all the contents that are staged.
DigestIsCollisionFree ==
  \A x, y \in Payloads \cup TemplateContents : Sum256(x) = Sum256(y) => x = y

\* ------------------------------------------------------------------- C7

\* C7: the key under which payload bytes B are staged is
\* porter-deployment/{serviceName}/{environment}/{serviceVersion}/{hex digest
\* of B}.tar, in every call, whatever the bucket holds and whatever key the
\* creator held before.
DigestDeterminism ==
  \A c \in Creators :
    (pc[c] \in {"HeadObject", "Upload"} \/ (pc[c] = "rm" /\ Ok(c, "ReadFile"))) =>
      /\ payloadBytes[c] = payloadFile.bytes
      /\ servicePayloadKey[c] =
           <<"porter-deployment", "/">> \o config.ServiceName \o <<"/">>
             \o environment.Name \o <<"/">> \o config.ServiceVersion \o <<"/">>
             \o EncodeToString(Sum256(payloadBytes[c])) \o <<".tar">>

\* A later call stages other bytes into a bucket that holds the earlier
\* payload.
DigestDeterminismWitness ==
  \E c \in Creators :
    /\ pc[c] = "HeadObject"
    /\ \E o \in s3[c] : ~IsTemplateKey(o.Key) /\ o.Key # servicePayloadKey[c]

\* ------------------------------------------------------------------- C8

\* C8: a creator's run reads the payload that was there when it was called,
\* as it would alone: nothing another creator does comes between.
IndependentRegionRuns ==
  \A c \in Creators :
    Did(c, "ReadFile") =>
      /\ Ok(c, "ReadFile") <=> fileAtCall[c].exists
      /\ Ok(c, "ReadFile") =>
           servicePayloadKey[c] =
             PayloadKey(config, environment,
                        EncodeToString(Sum256(fileAtCall[c].bytes)))

\* ------------------------------------------------------------------- C9

StagingPcs == {"ReadFile", "HeadObject", "Upload", "rm"}

\* C9: on every return path of uploadServicePayload the removal of the
\* payload is attempted exactly once, as its last step and after the read;
\* and the stage's success is decided by the probe and the upload alone,
\* whether or not the file is gone.
CleanupOnEveryExit ==
  \A c \in Creators :
    /\ Count(c, "rm") <= 1
    /\ (pc[c] \notin StagingPcs /\ trace[c] # <<>>) => Count(c, "rm") = 1
    /\ Did(c, "rm") =>
         /\ trace[c][1].op = "ReadFile"
         /\ Index(c, "rm") > 1
         /\ \A i \in 1..(Index(c, "rm") - 1) :
              trace[c][i].op \in {"ReadFile", "HeadObject", "Upload"}
         /\ \A i \in (Index(c, "rm") + 1)..Len(trace[c]) : trace[c][i].op \in LaterOps
         /\ success[c] <=>
              \/ Ok(c, "Upload")
              \/ Ok(c, "HeadObject") /\ ~Did(c, "Upload")

\* The stage succeeded although the removal left the file in place.
CleanupWitness ==
  \E c \in Creators :
    /\ pc[c] = "uploadSecrets"
    /\ payloadFile.exists
    /\ \A d \in Creators : d # c => trace[d] = <<>>

\* ------------------------------------------------------------------ C10

\* C10: mutateTemplate sets the description, then runs ensureResources, then
\* mapResources; the mapping runs only after ensureResources succeeded; and
\* mutateTemplate succeeds (createTemplate goes on to serialize) exactly when
\* both succeeded.
MutationOrdering ==
  \A c \in Creators :
    /\ Did(c, "ensureResources") =>
         /\ Did(c, "Description")
         /\ Index(c, "ensureResources") = Index(c, "Description") + 1
    /\ Did(c, "mapResources") =>
         /\ Ok(c, "ensureResources")
         /\ Index(c, "mapResources") = Index(c, "ensureResources") + 1
    /\ Did(c, "Description") =>
         /\ Did(c, "ensureResources")
         /\ Did(c, "Marshal") <=> (Ok(c, "ensureResources") /\ Ok(c, "mapResources"))
    /\ Ok(c, "Marshal") =>
         Contains(templateBytes[c],
                  config.ServiceName \o <<" (powered by porter ", "v", ")">>)
    /\ \A ensureOk \in BOOLEAN, mapOk \in BOOLEAN :
         mutateTemplate(NewTemplate, config.ServiceName, ensureOk, mapOk).success
           <=> (ensureOk /\ mapOk)

\* A mutation that went through both sub-steps, its template serialized.
MutationOrderingWitness ==
  \E c \in Creators :
    /\ pc[c] = "WriteFile"
    /\ Ok(c, "ensureResources") /\ Ok(c, "mapResources") /\ Ok(c, "Marshal")

\* ------------------------------------------------------------------ C11

\* The operations on S3, the secrets store and CloudFormation.
ExternalOps == {"HeadObject", "Upload", "uploadSecrets", "TemplateUpload", "cfnAPI"}

\* C11: within one call each external operation (the probe, the payload
\* upload, secrets staging, the template upload, the dispatch) is invoked at
\* most once, whatever the operations answer; and after one of them failed
\* (a probe that leads to the upload apart) the call invokes no other.
NoAutomaticRetry ==
  \A c \in Creators :
    /\ \A op \in ExternalOps : Count(c, op) <= 1
    /\ \A i \in DOMAIN trace[c] :
         (trace[c][i].op \in ExternalOps \ {"HeadObject"} /\ ~trace[c][i].ok) =>
           \A j \in (i + 1)..Len(trace[c]) : trace[c][j].op \notin ExternalOps

\* A call that invoked each of the five once and returned false when the
\* dispatch failed.
NoAutomaticRetryWitness ==
  \E c \in Creators :
    /\ Returned(c) /\ result[c] = "false"
    /\ \A op \in ExternalOps : Count(c, op) = 1
    /\ ~Ok(c, "cfnAPI") /\ ~Ok(c, "HeadObject")

\* ------------------------------------------------------------------ C12

\* Every object of every bucket is there after the step, with its content.
ObjectsKept ==
  \A c \in Creators : \A o \in s3[c] :
    \E n \in s3'[c] : n.Key = o.Key /\ n.Body = o.Body

\* What a call staged is in the bucket: the payload it read, under the key
\* of its digest, once staging succeeded; the template it serialized, under
\* the key of its digest, once the template upload succeeded.
StagedInPlace(c) ==
  /\ success[c] =>
       /\ servicePayloadKey[c] =
            PayloadKey(config, environment, EncodeToString(Sum256(fileAtCall[c].bytes)))
       /\ HasObject(s3[c], servicePayloadKey[c])
       /\ ObjectAt(s3[c], servicePayloadKey[c]).Body = fileAtCall[c].bytes
  /\ Ok(c, "TemplateUpload") =>
       LET key == TemplateKey(config, environment,
                              EncodeToString(Sum256(templateBytes[c])))
       IN  /\ HasObject(s3[c], key)
           /\ ObjectAt(s3[c], key).Body = templateBytes[c]

\* C12: no step of the pipeline deletes an object of the bucket or replaces
\* its content by another; and when a call returns false at secrets staging,
\* template work or dispatch, what it staged before is in the bucket with
\* the same content.
NoCompensatingActions ==
  /\ [][ObjectsKept]_vars
  /\ [](\A c \in Creators :
          (Returned(c) /\ result[c] = "false") => StagedInPlace(c))

\* A call that uploaded the payload and the template and returned false when
\* the dispatch failed.
NoCompensatingActionsWitness ==
  \E c \in Creators :
    /\ Returned(c) /\ result[c] = "false"
    /\ Ok(c, "Upload") /\ Ok(c, "TemplateUpload") /\ Did(c, "cfnAPI")
    /\ Cardinality(s3[c]) = 2

\* ------------------------------------------------------------------ C13

\* The steps of createTemplate that load and resolve the template.
ResolutionOps == {"Open", "Decode", "ParseResources"}

\* Everything a call does with a template once it is loaded and resolved.
AssemblyOps ==
  {"Description", "ensureResources", "mapResources", "Marshal", "WriteFile",
   "TemplateUpload", "cfnAPI"}

\* C13: when the override file fails to open, the document fails to parse,
\* or the resolution of its resources (ParseResources) fails, createTemplate
\* returns failure: the call returns false and no template is mutated,
\* serialized, mirrored, uploaded or dispatched in it.
ResolutionFailureAborts ==
  \A c \in Creators :
    \A op \in ResolutionOps :
      (Did(c, op) /\ ~Ok(c, op)) =>
        /\ Returned(c) /\ result[c] = "false"
        /\ \A later \in AssemblyOps : ~Did(c, later)

\* ------------------------------------------------------------------ C14

\* C14: the template is serialized once; the template upload is attempted
\* only right after the serialized bytes were written to the local template
\* path; when the write fails the call returns false without template upload
\* and without dispatch; and the bytes in the local file, the bytes whose
\* digest ends the key and the bytes of the upload are the same.
LocalMirrorPrecedesUpload ==
  \A c \in Creators :
    /\ Count(c, "Marshal") <= 1 /\ Count(c, "WriteFile") <= 1
    /\ Did(c, "WriteFile") => trace[c][Index(c, "WriteFile") - 1] = Step("Marshal", TRUE)
    /\ Did(c, "TemplateUpload") =>
         trace[c][Index(c, "TemplateUpload") - 1] = Step("WriteFile", TRUE)
    /\ (Did(c, "WriteFile") /\ ~Ok(c, "WriteFile")) =>
         /\ Returned(c) /\ result[c] = "false"
         /\ ~Did(c, "TemplateUpload") /\ ~Did(c, "cfnAPI")
         /\ pc[c] \notin {"TemplateUpload", "cfnAPI"}
    /\ (pc[c] = "TemplateUpload" \/ Did(c, "TemplateUpload")) =>
         templateFile = File(templateBytes[c])
    /\ Did(c, "TemplateUpload") =>
         /\ uploadInput[c].Body = templateFile.bytes
         /\ uploadInput[c].Key =
              TemplateKey(config, environment, EncodeToString(Sum256(templateFile.bytes)))
    /\ Ok(c, "TemplateUpload") =>
         /\ HasObject(s3[c], uploadInput[c].Key)
         /\ ObjectAt(s3[c], uploadInput[c].Key).Body = templateFile.bytes

\* A template uploaded after it was mirrored, into a bucket that holds the
\* other template of an earlier call.
LocalMirrorWitness ==
  \E c \in Creators :
    /\ Ok(c, "TemplateUpload")
    /\ templateFile.exists /\ templateFile.bytes = uploadInput[c].Body
    /\ \E o \in s3[c] : IsTemplateKey(o.Key) /\ o.Body # templateFile.bytes

\* ------------------------------------------------------------------ C15

\* C15: the dispatch is invoked only after the template upload of the same
\* call succeeded, right after it; its input carries the environment name,
\* the region name, the creator's secrets key and secrets location, and the
\* URL https://s3.amazonaws.com/{bucket}/{key} of the bucket and key the
\* template was uploaded to, where the bucket holds the template's bytes.
DispatchReferencesStagedTemplate ==
  \A c \in Creators :
    /\ pc[c] = "cfnAPI" => Ok(c, "TemplateUpload")
    /\ Did(c, "cfnAPI") =>
         /\ trace[c][Index(c, "cfnAPI") - 1] = Step("TemplateUpload", TRUE)
         /\ params[c].Environment = environment.Name
         /\ params[c].Region = region[c].Name
         /\ params[c].SecretsKey = secretsKey[c]
         /\ params[c].SecretsLoc = secretsLocation[c]
         /\ uploadInput[c].Bucket = region[c].S3Bucket
         /\ params[c].TemplateUrl =
              <<"https://s3.amazonaws.com/">> \o uploadInput[c].Bucket \o <<"/">>
                \o uploadInput[c].Key
         /\ uploadInput[c].Key =
              TemplateKey(config, environment, EncodeToString(Sum256(templateBytes[c])))
         /\ HasObject(s3[c], uploadInput[c].Key)
         /\ ObjectAt(s3[c], uploadInput[c].Key).Body = templateBytes[c]
    /\ ~Did(c, "cfnAPI") => params[c] = NoParams

\* A dispatch with the secrets of its call, for a template other than the
\* one the bucket held before.
DispatchWitness ==
  \E c \in Creators :
    /\ Did(c, "cfnAPI")
    /\ params[c].SecretsKey \in SecretsKeys
    /\ params[c].SecretsLoc \in SecretsLocations
    /\ \E o \in s3[c] : IsTemplateKey(o.Key) /\ o.Key # uploadInput[c].Key

\* ------------------------------------------------------------------ C16

\* C16: the request of the template upload carries the region's key id and
\* the encryption mode aws:kms when the region has a key id, and neither of
\* the two when it has none.
EncryptionIffKey ==
  \A c \in Creators :
    Did(c, "TemplateUpload") =>
      /\ uploadInput[c].ContentType = "application/json"
      /\ region[c].SSEKMSKeyId # Nil =>
           /\ uploadInput[c].SSEKMSKeyId = region[c].SSEKMSKeyId
           /\ uploadInput[c].ServerSideEncryption = <<"aws:kms">>
      /\ region[c].SSEKMSKeyId = Nil =>
           /\ uploadInput[c].SSEKMSKeyId = Nil
           /\ uploadInput[c].ServerSideEncryption = Nil

\* A template uploaded with the key of its region.
EncryptionWitness ==
  \E c \in Creators :
    /\ Ok(c, "TemplateUpload")
    /\ region[c].SSEKMSKeyId # Nil
    /\ uploadInput[c].SSEKMSKeyId = <<<<"k", "m", "s">>>>

\* A template uploaded in a region without key.
NoEncryptionWitness ==
  \E c \in Creators :
    /\ Ok(c, "TemplateUpload")
    /\ region[c].SSEKMSKeyId = Nil
    /\ uploadInput[c].ServerSideEncryption = Nil

\* ------------------------------------------------------------------ C17

\* C17: when the probe succeeds and reports no content length, or the
\* length zero, uploadServicePayload neither returns success at once nor
\* fails: it uploads the payload under the key it probed, and succeeds
\* exactly when that upload does.
EmptyObjectIsUploaded ==
  /\ \A requestId \in RequestIds, length \in {-1, 0} :
       ProbeDecision(200, length, requestId) = "upload"
  /\ \A c \in Creators :
       (headObject[c].code = 200 /\ headObject[c].ContentLength <= 0) =>
         /\ pc[c] \in {"Upload", "rm"}
         /\ pc[c] = "rm" =>
              /\ trace[c][Len(trace[c])].op = "Upload"
              /\ trace[c][Len(trace[c]) - 1] = Step("HeadObject", TRUE)
              /\ uploadInput[c].Key = servicePayloadKey[c]
              /\ uploadInput[c].Body = payloadBytes[c]
              /\ success[c] <=> Ok(c, "Upload")
              /\ Ok(c, "Upload") =>
                   ObjectAt(s3[c], servicePayloadKey[c]).Body = payloadBytes[c]

\* An empty object found by the probe and uploaded again with success.
EmptyObjectWitness ==
  \E c \in Creators :
    /\ headObject[c] = [code |-> 200, ContentLength |-> 0]
    /\ pc[c] = "rm" /\ success[c]
    /\ ObjectAt(s3[c], servicePayloadKey[c]).Puts = 2

\* ------------------------------------------------------------------ C18

\* Creator c is in, or has returned from, a call made when the payload file
\* was gone: removed by the cleanup of an earlier call and not packed again.
CalledWithoutPayload(c) ==
  /\ pc[c] # "idle" \/ Returned(c)
  /\ ~fileAtCall[c].exists

\* C18: a call made after the cleanup of an earlier call removed the payload
\* file, the file not packed again, fails at the read: it makes no probe, no
\* upload, no secrets staging, no template work and no dispatch, returns
\* false and leaves the region state as it was.
PayloadConsumedByOneRun ==
  \A c \in Creators :
    CalledWithoutPayload(c) =>
      /\ calls > 1
      /\ pc[c] \in {"ReadFile", "rm", "idle"}
      /\ \A i \in DOMAIN trace[c] :
           trace[c][i] \in {Step("ReadFile", FALSE), Step("rm", TRUE)}
      /\ Returned(c) => result[c] = "false"
      /\ regionState[c] = stateBefore[c]
      /\ ~payloadFile.exists

\* The call after a call that succeeded: it has returned false, and the
\* region holds the stack id of the first.
PayloadConsumedWitness ==
  \E c \in Creators :
    /\ CalledWithoutPayload(c) /\ Returned(c)
    /\ Did(c, "rm")
    /\ regionState[c].StackId # <<>>

\* ------------------------------------------------------------------ C19

\* The values of prefixOpt over the two option bits.
PrefixOpts == {0, s3KeyOptTemplate, s3KeyOptDeployment, s3KeyOptTemplate + s3KeyOptDeployment}

\* Exactly one of the two namespace options is selected.
ExactlyOneOption(prefixOpt) ==
  HasOpt(prefixOpt, s3KeyOptTemplate) # HasOpt(prefixOpt, s3KeyOptDeployment)

\* C19: s3KeyRoot returns a key root exactly when one of the two options is
\* selected, under porter-template for the template option and under
\* porter-deployment for the deployment option, and panics for every other
\* value (no bit set, both bits set); and the keys the pipeline derives are
\* key roots of one option each, never a panic.
NamespaceSelection ==
  /\ \A prefixOpt \in PrefixOpts :
       LET root == s3KeyRoot(config, environment, prefixOpt) IN
       /\ ExactlyOneOption(prefixOpt) =>
            root[1] = IF HasOpt(prefixOpt, s3KeyOptTemplate)
                      THEN "porter-template"
                      ELSE "porter-deployment"
       /\ ~ExactlyOneOption(prefixOpt) => root = <<"panic">>
  /\ \A c \in Creators :
       /\ servicePayloadKey[c] # <<>> => servicePayloadKey[c][1] = "porter-deployment"
       /\ \A o \in s3[c] : o.Key[1] \in {"porter-deployment", "porter-template"}
       /\ Did(c, "TemplateUpload") => uploadInput[c].Key[1] = "porter-template"

====
